---- MODULE Spec2Model ----
(***************************************************************************)
(* A model of the command line calculator of advance_calc.py: the log file *)
(* life cycle (initialisation, main_menu, upload_log) with the conversion  *)
(* utilities of utilities.py it relies on.                                 *)
(*                                                                         *)
(* Text is modelled character by character: a string is a sequence of      *)
(* one-character strings, a file is the string of its content, so that     *)
(* writing and reading back a file (line splitting, the 20 character       *)
(* header prefix, the Morse code of the counter) is computed as the code   *)
(* computes it.  The non ASCII signs of the source are written in ASCII:   *)
(* chr(215) as "*" and chr(247) as "/".                                    *)
(***************************************************************************)
EXTENDS Integers, Sequences, FiniteSets, TLC

\* ------------------------------------------------------------- bounds ----
\* The number of records (historical + new) a log may hold: an arithmetic
\* menu entry is offered only below it.
MaxRecords == 2
\* The model's stand-in for the largest finite double: a result of larger
\* magnitude is an infinity, as it is beyond sys.float_info.max.
FloatMax == 300
\* The largest integer handed to num2morse when the codec is run on its own:
\* one to four digits, with zeros inside and at the end.
MaxNum == 1100

\* ------------------------------------------------------- text helpers ----
NL == "\n"
SP == " "
Whitespace == {SP, NL}

RECURSIVE Concat(_)
\* "".join(lines): what file.writelines(list) appends
Concat(ss) == IF ss = <<>> THEN <<>> ELSE Head(ss) \o Concat(Tail(ss))

\* s[1:] of a list
Rest(s) == IF s = <<>> THEN <<>> ELSE Tail(s)

\* s[n:]
DropFirst(s, n) == IF Len(s) <= n THEN <<>> ELSE SubSeq(s, n + 1, Len(s))

RECURSIVE RStrip(_)
\* str.rstrip()
RStrip(s) ==
    IF s # <<>> /\ s[Len(s)] \in Whitespace
    THEN RStrip(SubSeq(s, 1, Len(s) - 1))
    ELSE s

RECURSIVE LStrip(_)
LStrip(s) == IF s # <<>> /\ Head(s) \in Whitespace THEN LStrip(Tail(s)) ELSE s

\* str.strip()
Strip(s) == RStrip(LStrip(s))

\* The k-th smallest member of a finite set of integers
Nth(S, k) == CHOOSE i \in S : Cardinality({j \in S : j < i}) = k - 1

\* str.split(): the maximal runs of non-whitespace characters of s, in order
Split(s) ==
    LET starts == {i \in 1..Len(s) :
                      s[i] \notin Whitespace /\ (i = 1 \/ s[i - 1] \in Whitespace)}
        last(i) == CHOOSE j \in i..Len(s) :
                      /\ \A m \in i..j : s[m] \notin Whitespace
                      /\ (j = Len(s) \/ s[j + 1] \in Whitespace)
    IN  [k \in 1..Cardinality(starts) |-> SubSeq(s, Nth(starts, k), last(Nth(starts, k)))]

\* file.readlines() on content s: every line with its line end, the last line
\* as it is when the content does not end with a line end
ReadLines(s) ==
    LET starts == {i \in 1..Len(s) : i = 1 \/ s[i - 1] = NL}
        last(i) == IF \E j \in i..Len(s) : s[j] = NL
                   THEN CHOOSE j \in i..Len(s) : s[j] = NL /\ \A m \in i..(j - 1) : s[m] # NL
                   ELSE Len(s)
    IN  [k \in 1..Cardinality(starts) |-> SubSeq(s, Nth(starts, k), last(Nth(starts, k)))]

\* file.readline() from position 0: the first line, "" for an empty file
ReadLine(s) == IF ReadLines(s) = <<>> THEN <<>> ELSE Head(ReadLines(s))

\* ---------------------------------------------------- utilities.py -------
DigitChars == <<"0", "1", "2", "3", "4", "5", "6", "7", "8", "9">>

RECURSIVE IntStr(_)
\* str(num) for an integer num >= 0
IntStr(n) == IF n < 10 THEN <<DigitChars[n + 1]>>
             ELSE Append(IntStr(n \div 10), DigitChars[(n % 10) + 1])

DigitValue(c) == CHOOSE d \in 0..9 : DigitChars[d + 1] = c

RECURSIVE ParseIntFrom(_, _)
ParseIntFrom(s, acc) ==
    IF s = <<>> THEN acc ELSE ParseIntFrom(Tail(s), 10 * acc + DigitValue(Head(s)))

\* int(text) for a non-empty string of decimal digits
ParseInt(s) == ParseIntFrom(s, 0)

NUM2MORSE_DICT ==
    [c \in {"0", "1", "2", "3", "4", "5", "6", "7", "8", "9"} |->
        CASE c = "1" -> <<".", "-", "-", "-", "-">>
          [] c = "2" -> <<".", ".", "-", "-", "-">>
          [] c = "3" -> <<".", ".", ".", "-", "-">>
          [] c = "4" -> <<".", ".", ".", ".", "-">>
          [] c = "5" -> <<".", ".", ".", ".", ".">>
          [] c = "6" -> <<"-", ".", ".", ".", ".">>
          [] c = "7" -> <<"-", "-", ".", ".", ".">>
          [] c = "8" -> <<"-", "-", "-", ".", ".">>
          [] c = "9" -> <<"-", "-", "-", "-", ".">>
          [] c = "0" -> <<"-", "-", "-", "-", "-">>]

MorseCodes == {NUM2MORSE_DICT[c] : c \in DOMAIN NUM2MORSE_DICT}

\* MORSE2NUM_DICT with the codes of 4 and 6 exchanged
MORSE2NUM_DICT_swapped ==
    [m \in MorseCodes |->
        CASE m = <<".", "-", "-", "-", "-">> -> "1"
          [] m = <<".", ".", "-", "-", "-">> -> "2"
          [] m = <<".", ".", ".", "-", "-">> -> "3"
          [] m = <<".", ".", ".", ".", "-">> -> "6"
          [] m = <<".", ".", ".", ".", ".">> -> "5"
          [] m = <<"-", ".", ".", ".", ".">> -> "4"
          [] m = <<"-", "-", ".", ".", ".">> -> "7"
          [] m = <<"-", "-", "-", ".", ".">> -> "8"
          [] m = <<"-", "-", "-", "-", ".">> -> "9"
          [] m = <<"-", "-", "-", "-", "-">> -> "0"]

MORSE2NUM_DICT ==
    [m \in MorseCodes |->
        CASE m = <<".", "-", "-", "-", "-">> -> "1"
          [] m = <<".", ".", "-", "-", "-">> -> "2"
          [] m = <<".", ".", ".", "-", "-">> -> "3"
          [] m = <<".", ".", ".", ".", "-">> -> "4"
          [] m = <<".", ".", ".", ".", ".">> -> "5"
          [] m = <<"-", ".", ".", ".", ".">> -> "6"
          [] m = <<"-", "-", ".", ".", ".">> -> "7"
          [] m = <<"-", "-", "-", ".", ".">> -> "8"
          [] m = <<"-", "-", "-", "-", ".">> -> "9"
          [] m = <<"-", "-", "-", "-", "-">> -> "0"]

RECURSIVE MorseOfDigits(_)
\* the loop of num2morse: cipher += NUM2MORSE_DICT[digit] + " "
MorseOfDigits(ds) ==
    IF ds = <<>> THEN <<>>
    ELSE NUM2MORSE_DICT[Head(ds)] \o <<SP>> \o MorseOfDigits(Tail(ds))

num2morse(num) == Strip(MorseOfDigits(IntStr(num)))

RECURSIVE DigitsOfMorse(_)
\* the loop of morse2num: decipher += MORSE2NUM_DICT[processed_morse]
DigitsOfMorse(ms) ==
    IF ms = <<>> THEN <<>>
    ELSE <<MORSE2NUM_DICT[Head(ms)]>> \o DigitsOfMorse(Tail(ms))

RECURSIVE ReversedDigitsOfMorse(_)
ReversedDigitsOfMorse(ms) ==
    IF ms = <<>> THEN <<>>
    ELSE ReversedDigitsOfMorse(Tail(ms)) \o <<MORSE2NUM_DICT[Head(ms)]>>

\* morse2num putting each digit in front: decipher = digit + decipher
morse2num_reversed(morse) == ParseInt(ReversedDigitsOfMorse(Split(morse)))

morse2num(morse) == ParseInt(DigitsOfMorse(Split(morse)))

ROMAN_NUMERAL_MAP ==
    << <<<<"M">>, 1000>>, <<<<"C", "M">>, 900>>, <<<<"D">>, 500>>,
       <<<<"C", "D">>, 400>>, <<<<"C">>, 100>>, <<<<"X", "C">>, 90>>,
       <<<<"L">>, 50>>, <<<<"X", "L">>, 40>>, <<<<"X">>, 10>>,
       <<<<"I", "X">>, 9>>, <<<<"V">>, 5>>, <<<<"I", "V">>, 4>>,
       <<<<"I">>, 1>> >>

RECURSIVE RomanFrom(_, _)
\* the nested loops of num2roman, i the index into ROMAN_NUMERAL_MAP
RomanFrom(num, i) ==
    IF i > Len(ROMAN_NUMERAL_MAP) THEN <<>>
    ELSE IF num >= ROMAN_NUMERAL_MAP[i][2]
         THEN ROMAN_NUMERAL_MAP[i][1] \o RomanFrom(num - ROMAN_NUMERAL_MAP[i][2], i)
         ELSE RomanFrom(num, i + 1)

num2roman(num) == IF num = 0 THEN <<"N">> ELSE RomanFrom(num, 1)

\* date.today() as <<day, month, year>>: the day the sessions are run
Today == <<3, 11, 2026>>

roman_date ==
    num2roman(Today[1]) \o <<".">> \o num2roman(Today[2]) \o <<".">> \o num2roman(Today[3])

\* ------------------------------------------------------------ floats -----
\* A finite float is a sign and a magnitude n/d in lowest terms (the sign is
\* kept apart because Python has a negative zero, which str() shows); an
\* infinity is what a result beyond FloatMax becomes.  The values that are
\* entered and computed here have finite decimal expansions, which is what
\* str() prints for them.
RECURSIVE GCD(_, _)
GCD(a, b) == IF b = 0 THEN a ELSE GCD(b, a % b)

Fin(s, n, d) == [k |-> "fin", s |-> s, n |-> n \div GCD(n, d), d |-> d \div GCD(n, d)]
Inf(s) == [k |-> "inf", s |-> s]
NoResult == [k |-> "none"]

\* the float nearest to the real number s * n / d
Rounded(s, n, d) == IF n > FloatMax * d THEN Inf(s) ELSE Fin(s, n, d)

IsZero(a) == a.k = "fin" /\ a.n = 0
Negated(a) == [a EXCEPT !.s = -a.s]

\* a + b on floats
FAdd(a, b) ==
    IF a.k = "inf" THEN a
    ELSE IF b.k = "inf" THEN b
    ELSE LET num == a.s * a.n * b.d + b.s * b.n * a.d
             den == a.d * b.d
         IN  IF num = 0
             THEN Fin(IF a.s = -1 /\ b.s = -1 THEN -1 ELSE 1, 0, 1)
             ELSE Rounded(IF num < 0 THEN -1 ELSE 1, IF num < 0 THEN -num ELSE num, den)

\* a - b on floats
FSub(a, b) == FAdd(a, Negated(b))

\* a * b on finite floats
FMul(a, b) == Rounded(a.s * b.s, a.n * b.n, a.d * b.d)

\* a / b on finite floats, b not zero
FDiv(a, b) == Rounded(a.s * b.s, a.n * b.d, a.d * b.n)

\* math.isinf
isinf(a) == a.k = "inf"

\* float.is_integer
is_integer(a) == a.k = "fin" /\ a.n % a.d = 0

\* a == the integer i, a < the integer i, a <= the integer i (i >= 0)
FEqInt(a, i) == a.k = "fin" /\ a.s * a.n = i * a.d
FLtInt(a, i) == IF a.k = "inf" THEN a.s = -1 ELSE a.s * a.n < i * a.d
FLeInt(a, i) == FLtInt(a, i) \/ FEqInt(a, i)

RECURSIVE FracDigits(_, _)
\* the decimal digits of r/d, 0 <= r < d, after the point
FracDigits(r, d) ==
    IF r = 0 THEN <<>>
    ELSE <<DigitChars[((10 * r) \div d) + 1]>> \o FracDigits((10 * r) % d, d)

\* str(a) of a finite float, as an f-string renders it
FloatStr(a) ==
    (IF a.s = -1 THEN <<"-">> ELSE <<>>)
    \o IntStr(a.n \div a.d) \o <<".">>
    \o (IF a.n % a.d = 0 THEN <<"0">> ELSE FracDigits(a.n % a.d, a.d))

\* An exception raised instead of a returned value
Raise(exc, arg) == [k |-> "raise", exc |-> exc, arg |-> arg]
Raised(v) == v.k = "raise"

\* The strings the user types.  str.lower() of each:
Lower(tok) ==
    CASE tok = "Exit" -> "exit"
      [] tok = "X" -> "x"
      [] tok = "N" -> "n"
      [] tok = "Yes" -> "yes"
      [] OTHER -> tok

\* float(text) of each: the value, or the ValueError of a string that is no
\* number
ParseFloat(text) ==
    CASE text = "0" -> Fin(1, 0, 1)
      [] text = "200.5" -> Fin(1, 401, 2)
      [] text = "-200.5" -> Fin(-1, 401, 2)
      [] text = "-100.25" -> Fin(-1, 401, 4)
      [] text = "62" -> Fin(1, 62, 1)
      [] text = "2" -> Fin(1, 2, 1)
      [] text = "60" -> Fin(1, 60, 1)
      [] text = "70" -> Fin(1, 70, 1)
      [] text = "88" -> Fin(1, 88, 1)
      [] text = "90" -> Fin(1, 90, 1)
      [] OTHER -> Raise("ValueError", "could not convert string to float")

\* ------------------------------------------------- advance_calc.py -------
ADDITION == "1"
SUBTRACTION == "2"
MULTIPLICATION == "3"
DIVISION == "4"
DRAW_TRIANGLE == "5"
EXIT == "9"

ArithmeticItems == {ADDITION, SUBTRACTION, MULTIPLICATION, DIVISION}

addition(addend1, addend2) ==
    LET sum_ == FAdd(addend1, addend2)
    IN  IF isinf(sum_) THEN Raise("OverflowError", "") ELSE sum_

subtraction(minuend, subtrahend) ==
    LET difference_ == FSub(minuend, subtrahend)
    IN  IF isinf(difference_) THEN Raise("OverflowError", "") ELSE difference_

multiplication(factor1, factor2) ==
    LET product_ == FMul(factor1, factor2)
    IN  IF isinf(product_) THEN Raise("OverflowError", "") ELSE product_

\* division on floats whose division by zero gives an infinity, as IEEE 754
\* division does
division_ieee(dividend, divisor) ==
    LET quotient_ == IF IsZero(divisor) THEN Inf(dividend.s * divisor.s)
                     ELSE FDiv(dividend, divisor)
    IN  IF isinf(quotient_) THEN Raise("OverflowError", "") ELSE quotient_

\* Python's float division raises ZeroDivisionError for a zero divisor,
\* whatever the dividend
division(dividend, divisor) ==
    IF IsZero(divisor) THEN Raise("ZeroDivisionError", "float division by zero")
    ELSE LET quotient_ == FDiv(dividend, divisor)
         IN  IF isinf(quotient_) THEN Raise("OverflowError", "") ELSE quotient_


\* The text of the f-strings and messages of the script
TXT_TOTAL == <<"T","o","t","a","l"," ","c","a","l","c","u","l","a","t","i","o","n","s",":"," ">>
TXT_TIMESTAMP == <<"T","i","m","e","s","t","a","m","p"," ">>
TXT_CALCULATION == <<"C","a","l","c","u","l","a","t","i","o","n"," ">>

MSG_NOT_MAIN == "That is not a main menu option!"
MSG_NOT_SUB == "That is not a submenu option!"
MSG_DIV_ZERO == "Division by zero! Please try again."
MSG_OVERFLOW == "Number too big in magnitude! Please try again."
MSG_ANGLE_SUM == "Invalid triangle! Angle sum of triangle must equal to 180."
MSG_ANGLE_POS == "Invalid triangle! All angles must be bigger than 0."
MSG_ANGLE_MIN == "Minimum angle accepted is 5 for the triangle to display properly."
MSG_INVALID_NUMBER == "Invalid number! Please try again. Type 'x' to exit inputting"
MSG_INVALID_INPUT == "Invalid input!"
MSG_VIEW_PNG == "Please view the exported PNG for the drawn triangle."
MSG_QUIT == "Quit User Input"

\* The sign an arithmetic menu item is logged with
OperatorSign(item) ==
    CASE item = ADDITION -> "+"
      [] item = SUBTRACTION -> "-"
      [] item = MULTIPLICATION -> "*"
      [] item = DIVISION -> "/"

\* The arithmetic function a menu item calls
Compute(item, a, b) ==
    CASE item = ADDITION -> addition(a, b)
      [] item = SUBTRACTION -> subtraction(a, b)
      [] item = MULTIPLICATION -> multiplication(a, b)
      [] item = DIVISION -> division(a, b)

\* calc_msg = f"Calculation {a} <sign> {b} = {result}"
CalcMsg(item, a, b, r) ==
    TXT_CALCULATION \o FloatStr(a) \o <<SP, OperatorSign(item), SP>> \o FloatStr(b)
    \o <<SP, "=", SP>> \o FloatStr(r)

\* f"Timestamp {utilities.roman_date()} {calc_msg}\n"
LogRecord(calc_msg) == TXT_TIMESTAMP \o roman_date \o <<SP>> \o calc_msg \o <<NL>>

\* The checks of the angles without the one for the minimum of 5
AngleError_no_minimum(a1, a2, a3) ==
    IF ~FEqInt(FAdd(FAdd(a1, a2), a3), 180) THEN MSG_ANGLE_SUM
    ELSE IF FLeInt(a1, 0) \/ FLeInt(a2, 0) \/ FLeInt(a3, 0) THEN MSG_ANGLE_POS
    ELSE ""

\* The checks of the three angles of Draw Triangle, in the order of the code:
\* the message of the ValueError raised, "" when the triangle is drawn
AngleError(a1, a2, a3) ==
    IF ~FEqInt(FAdd(FAdd(a1, a2), a3), 180) THEN MSG_ANGLE_SUM
    ELSE IF FLeInt(a1, 0) \/ FLeInt(a2, 0) \/ FLeInt(a3, 0) THEN MSG_ANGLE_POS
    ELSE IF FLtInt(a1, 5) \/ FLtInt(a2, 5) \/ FLtInt(a3, 5) THEN MSG_ANGLE_MIN
    ELSE ""

\* initialisation without log.truncate(0)
initialisation_no_truncate(content, is_new_file) ==
    IF ~is_new_file
    THEN LET old_calc_msg == RStrip(DropFirst(ReadLine(content), 20))
         IN  [old_calc_count |-> IF old_calc_msg # <<>> THEN morse2num(old_calc_msg) ELSE 0,
              old_log |-> Rest(ReadLines(content)),
              content |-> content]
    ELSE [old_calc_count |-> 0, old_log |-> <<>>, content |-> content]

\* initialisation taking the number of record lines for the count
initialisation_counts_lines(content, is_new_file) ==
    IF ~is_new_file
    THEN [old_calc_count |-> Len(Rest(ReadLines(content))),
          old_log |-> Rest(ReadLines(content)),
          content |-> <<>>]
    ELSE [old_calc_count |-> 0, old_log |-> <<>>, content |-> <<>>]

\* initialisation(log, is_new_file) on a file of the given content: what it
\* returns and the content it leaves
initialisation(content, is_new_file) ==
    IF ~is_new_file
    THEN LET old_calc_msg == RStrip(DropFirst(ReadLine(content), 20))
         IN  [old_calc_count |-> IF old_calc_msg # <<>> THEN morse2num(old_calc_msg) ELSE 0,
              old_log |-> Rest(ReadLines(content)),
              content |-> <<>>]
    ELSE [old_calc_count |-> 0, old_log |-> <<>>, content |-> <<>>]

\* upload_log writing the new records before the old ones
upload_log_new_first(content, newlog, oldlog, newcount, oldcount) ==
    content \o TXT_TOTAL \o num2morse(newcount + oldcount) \o <<NL>>
    \o Concat(newlog) \o Concat(oldlog)

\* upload_log writing the count of the session alone
upload_log_session_count(content, newlog, oldlog, newcount, oldcount) ==
    content \o TXT_TOTAL \o num2morse(newcount) \o <<NL>> \o Concat(oldlog) \o Concat(newlog)

\* upload_log(log, new_log, old_log, new_calc_count, old_calc_count) on a file
\* opened for appending: the content it leaves
upload_log(content, newlog, oldlog, newcount, oldcount) ==
    LET total_calc_msg == TXT_TOTAL \o num2morse(newcount + oldcount) \o <<NL>>
    IN  content \o total_calc_msg \o Concat(oldlog) \o Concat(newlog)

\* The while condition of running_confirmation, negated: the answer ends the
\* asking
ConfirmationGiven(answer) == Lower(answer) \in {"y", "n", "yes", "no"}

\* running_confirmation returning whether the user confirmed
running_confirmation_confirmed(answer) == Lower(answer) \in {"y", "yes"}

\* What running_confirmation returns for the answer that ended the asking
\* (TRUE: keep running)
running_confirmation(answer) == Lower(answer) \in {"n", "no"}

\* The except clauses without the one for EOFError and KeyboardInterrupt:
\* the exception leaves main_menu and ends the script
Catch_interrupt_uncaught(exc, arg) ==
    CASE exc = "KeyError" -> [pc |-> "menu", out |-> arg]
      [] exc = "ZeroDivisionError" -> [pc |-> "menu", out |-> MSG_DIV_ZERO]
      [] exc = "OverflowError" -> [pc |-> "menu", out |-> MSG_OVERFLOW]
      [] exc = "ValueError" -> [pc |-> "menu", out |-> arg]
      [] exc \in {"EOFError", "KeyboardInterrupt"} -> [pc |-> "crashed", out |-> exc]
      [] OTHER -> [pc |-> "menu", out |-> ""]

\* The except clauses of the loop of main_menu: where the loop goes and what
\* it prints for an exception raised in the try block
Catch(exc, arg) ==
    CASE exc = "KeyError" -> [pc |-> "menu", out |-> arg]
      [] exc = "ZeroDivisionError" -> [pc |-> "menu", out |-> MSG_DIV_ZERO]
      [] exc = "OverflowError" -> [pc |-> "menu", out |-> MSG_OVERFLOW]
      [] exc = "ValueError" -> [pc |-> "menu", out |-> arg]
      [] exc \in {"EOFError", "KeyboardInterrupt"} -> [pc |-> "returned", out |-> ""]
      [] OTHER -> [pc |-> "menu", out |-> ""]

\* -------------------------------------------------------------- state ----
VARIABLES
    file_exists,     \* adv_calc_logs.txt exists
    file,            \* its content
    log_open,        \* the file object log is open
    drawn,           \* the angles the last step called triangle.draw_triangle
                     \* with, <<>> if it did not call it
    pc,              \* where the program is: "off", "menu", "operand",
                     \* "submenu", "confirm_main", "confirm_sub", "returned"
                     \* (main_menu has returned), "exited"
    old_log, old_calc_count,
    new_log, new_calc_count,
    menu_running,
    user_selection,  \* the menu item whose operands are being read
    operands,        \* the operands read so far
    result,          \* the result the formatting submenu shows
    is_fraction,     \* the flag the formatting submenu was entered with
    raised,          \* the exception the last step raised, "" if none
    out,             \* the message the last step printed, "" if none
    num,             \* utilities on their own: the argument of num2morse,
    morse,           \* what num2morse returned, <<>> before the call,
    decoded          \* what morse2num returned, -1 before the call

vars == <<file_exists, file, log_open, drawn, pc, old_log, old_calc_count, new_log,
          new_calc_count, menu_running, user_selection, operands, result,
          is_fraction, raised, out, num, morse, decoded>>

disk == <<file_exists, file, log_open>>
session == <<old_log, old_calc_count, new_log, new_calc_count, menu_running>>
locals == <<user_selection, operands, result, is_fraction>>
codec == <<num, morse, decoded>>

\* The inputs
MenuTokens == {ADDITION, SUBTRACTION, MULTIPLICATION, DIVISION, DRAW_TRIANGLE, EXIT, "7", "x"}
\* (the first operand of an arithmetic item, then the second one)
FirstNumberTokens == {"200.5"}
NumberTokens == {"0", "200.5"}
AngleTokens == {"0", "2", "60", "70", "88", "90"}
WordTokens == {"abc", "x", "Exit"}
SubmenuTokens == {"1", "2", "3", "4", "9", "5"}
ConfirmTokens == {"y", "N", "Yes", "no", "maybe", ""}
Interrupts == {"EOFError", "KeyboardInterrupt"}
PromptPcs == {"menu", "operand", "submenu", "confirm_main", "confirm_sub"}

\* Before the first run: no log file
Init ==
    /\ file_exists = FALSE
    /\ file = <<>>
    /\ log_open = FALSE
    /\ drawn = <<>>
    /\ pc = "off"
    /\ old_log = <<>>
    /\ old_calc_count = 0
    /\ new_log = <<>>
    /\ new_calc_count = 0
    /\ menu_running = FALSE
    /\ user_selection = ""
    /\ operands = <<>>
    /\ result = NoResult
    /\ is_fraction = FALSE
    /\ raised = ""
    /\ out = ""
    /\ num = 0
    /\ morse = <<>>
    /\ decoded = -1

\* The locals of one pass of the loop are dropped when the loop returns to the
\* menu or ends
ClearLocals ==
    /\ user_selection' = ""
    /\ operands' = <<>>
    /\ result' = NoResult
    /\ is_fraction' = FALSE

\* An exception reaches the except clauses of main_menu
Handle(exc, arg) ==
    /\ pc' = Catch(exc, arg).pc
    /\ out' = Catch(exc, arg).out
    /\ raised' = exc
    /\ drawn' = <<>>
    /\ ClearLocals
    /\ UNCHANGED <<disk, session>>

\* A run of the script up to the first prompt of main_menu: the file is opened
\* with mode "a+" (created when missing), read and emptied by initialisation,
\* and main_menu sets up the session
StartProgram ==
    /\ pc \in {"off", "exited"}
    /\ UNCHANGED codec
    /\ LET is_new_file == ~file_exists
           got == initialisation(file, is_new_file)
       IN  /\ file_exists' = TRUE
           /\ log_open' = TRUE
           /\ file' = got.content
           /\ old_log' = got.old_log
           /\ old_calc_count' = got.old_calc_count
    /\ menu_running' = TRUE
    /\ new_calc_count' = 0
    /\ new_log' = <<>>
    /\ pc' = "menu"
    /\ raised' = ""
    /\ out' = ""
    /\ drawn' = <<>>
    /\ UNCHANGED locals

\* The user answers "Please input a valid menu number: "
MenuInput(tok) ==
    /\ pc = "menu"
    /\ UNCHANGED codec
    /\ IF tok \in ArithmeticItems \cup {DRAW_TRIANGLE}
       THEN /\ tok \in ArithmeticItems => Len(old_log) + Len(new_log) < MaxRecords
            /\ pc' = "operand"
            /\ user_selection' = tok
            /\ operands' = <<>>
            /\ raised' = ""
            /\ drawn' = <<>>
            /\ out' = ""
            /\ UNCHANGED <<disk, session, result, is_fraction>>
       ELSE IF tok = EXIT
       THEN /\ pc' = "confirm_main"
            /\ raised' = ""
            /\ drawn' = <<>>
            /\ out' = ""
            /\ UNCHANGED <<disk, session, locals>>
       ELSE Handle("KeyError", MSG_NOT_MAIN)

\* Calculate counting the calculation before it is done
Calculate_counts_first(item, a, b) ==
    LET new_result == Compute(item, a, b)
    IN  IF Raised(new_result)
        THEN /\ pc' = Catch(new_result.exc, new_result.arg).pc
             /\ out' = Catch(new_result.exc, new_result.arg).out
             /\ raised' = new_result.exc
             /\ drawn' = <<>>
             /\ ClearLocals
             /\ new_calc_count' = new_calc_count + 1
             /\ UNCHANGED <<disk, old_log, old_calc_count, new_log, menu_running>>
        ELSE /\ new_log' = Append(new_log, LogRecord(CalcMsg(item, a, b, new_result)))
             /\ new_calc_count' = new_calc_count + 1
             /\ result' = new_result
             /\ is_fraction' = ~is_integer(new_result)
             /\ pc' = "submenu"
             /\ user_selection' = ""
             /\ operands' = <<>>
             /\ raised' = ""
             /\ drawn' = <<>>
             /\ out' = "Calculation"
             /\ UNCHANGED <<disk, old_log, old_calc_count, menu_running>>

\* The tail of the try block once both operands of an arithmetic item are
\* read: the operation, the log record, the counter, the formatting submenu
Calculate(item, a, b) ==
    LET new_result == Compute(item, a, b)
    IN  IF Raised(new_result)
        THEN Handle(new_result.exc, new_result.arg)
        ELSE /\ new_log' = Append(new_log, LogRecord(CalcMsg(item, a, b, new_result)))
             /\ new_calc_count' = new_calc_count + 1
             /\ result' = new_result
             /\ is_fraction' = ~is_integer(new_result)
             /\ pc' = "submenu"
             /\ user_selection' = ""
             /\ operands' = <<>>
             /\ raised' = ""
             /\ drawn' = <<>>
             /\ out' = "Calculation"
             /\ UNCHANGED <<disk, old_log, old_calc_count, menu_running>>

\* The tail of Draw Triangle once the three angles are read
DrawTriangle(a1, a2, a3) ==
    IF AngleError(a1, a2, a3) # ""
    THEN Handle("ValueError", AngleError(a1, a2, a3))
    ELSE /\ drawn' = <<a1, a2, a3>>
         /\ pc' = "menu"
         /\ raised' = ""
         /\ out' = MSG_VIEW_PNG
         /\ ClearLocals
         /\ UNCHANGED <<disk, session>>

\* The user answers a prompt of valid_float_input
OperandInput(tok) ==
    /\ pc = "operand"
    /\ UNCHANGED codec
    /\ tok \in WordTokens \cup (IF user_selection = DRAW_TRIANGLE THEN AngleTokens
                               ELSE IF operands = <<>> THEN FirstNumberTokens
                               ELSE NumberTokens)
    /\ LET strInput == Lower(tok)
           float_input == ParseFloat(strInput)
           read == Append(operands, float_input)
       IN  IF Raised(float_input)
           THEN IF strInput = "x" \/ strInput = "exit"
                THEN Handle("Exception", MSG_QUIT)
                ELSE /\ out' = MSG_INVALID_NUMBER
                     /\ raised' = "ValueError"
                     /\ drawn' = <<>>
                     /\ UNCHANGED <<disk, session, locals, pc>>
           ELSE IF user_selection = DRAW_TRIANGLE
           THEN IF Len(read) < 3
                THEN /\ operands' = read
                     /\ raised' = ""
                     /\ drawn' = <<>>
                     /\ out' = ""
                     /\ UNCHANGED <<disk, session, pc, user_selection, result, is_fraction>>
                ELSE DrawTriangle(read[1], read[2], read[3])
           ELSE IF Len(read) < 2
                THEN /\ operands' = read
                     /\ raised' = ""
                     /\ drawn' = <<>>
                     /\ out' = ""
                     /\ UNCHANGED <<disk, session, pc, user_selection, result, is_fraction>>
                ELSE Calculate(user_selection, read[1], read[2])

\* formatting_submenu showing the fraction whatever is_fraction is
SubmenuInput_ignores_flag(tok) ==
    /\ UNCHANGED codec
    /\ pc = "submenu"
    /\ IF tok \in {"1", "2", "3", "4"}
       THEN /\ out' = CASE tok = "1" -> "standard"
                        [] tok = "2" -> "scientific"
                        [] tok = "3" -> "sexagesimal"
                        [] tok = "4" -> "fraction"
            /\ raised' = ""
            /\ drawn' = <<>>
            /\ UNCHANGED <<disk, session, locals, pc>>
       ELSE IF tok = "9"
       THEN /\ pc' = "confirm_sub"
            /\ raised' = ""
            /\ drawn' = <<>>
            /\ out' = ""
            /\ UNCHANGED <<disk, session, locals>>
       ELSE Handle("KeyError", MSG_NOT_SUB)

\* The user answers "Please input a valid submenu number: "
SubmenuInput(tok) ==
    /\ pc = "submenu"
    /\ UNCHANGED codec
    /\ IF tok \in {"1", "2", "3"} \/ (tok = "4" /\ is_fraction)
       THEN /\ out' = CASE tok = "1" -> "standard"
                        [] tok = "2" -> "scientific"
                        [] tok = "3" -> "sexagesimal"
                        [] tok = "4" -> "fraction"
            /\ raised' = ""
            /\ drawn' = <<>>
            /\ UNCHANGED <<disk, session, locals, pc>>
       ELSE IF tok = "9"
       THEN /\ pc' = "confirm_sub"
            /\ raised' = ""
            /\ drawn' = <<>>
            /\ out' = ""
            /\ UNCHANGED <<disk, session, locals>>
       ELSE Handle("KeyError", MSG_NOT_SUB)

\* The user answers "Are you sure? [y/n]: "
ConfirmInput(tok) ==
    /\ pc \in {"confirm_main", "confirm_sub"}
    /\ UNCHANGED codec
    /\ LET keep == running_confirmation(tok)
       IN  IF ~ConfirmationGiven(tok)
           THEN /\ out' = MSG_INVALID_INPUT
                /\ raised' = ""
                /\ drawn' = <<>>
                /\ UNCHANGED <<disk, session, locals, pc>>
           ELSE IF pc = "confirm_main"
           THEN /\ menu_running' = keep
                /\ pc' = IF keep THEN "menu" ELSE "returned"
                /\ raised' = ""
                /\ drawn' = <<>>
                /\ out' = ""
                /\ UNCHANGED <<disk, old_log, old_calc_count, new_log, new_calc_count, locals>>
           ELSE IF keep
           THEN /\ pc' = "submenu"
                /\ raised' = ""
                /\ drawn' = <<>>
                /\ out' = ""
                /\ UNCHANGED <<disk, session, locals>>
           ELSE /\ pc' = "menu"
                /\ raised' = ""
                /\ drawn' = <<>>
                /\ out' = ""
                /\ ClearLocals
                /\ UNCHANGED <<disk, session>>

\* input() raises EOFError (end of input) or KeyboardInterrupt (forced
\* interrupt) at a prompt
Interrupt(exc) ==
    /\ pc \in PromptPcs
    /\ UNCHANGED codec
    /\ Handle(exc, "")

\* main_menu has returned: upload_log writes the log and closes the file, and
\* the script ends
Upload ==
    /\ pc = "returned"
    /\ UNCHANGED codec
    /\ file' = upload_log(file, new_log, old_log, new_calc_count, old_calc_count)
    /\ log_open' = FALSE
    /\ pc' = "exited"
    /\ raised' = ""
    /\ out' = ""
    /\ drawn' = <<>>
    /\ UNCHANGED <<file_exists, session, locals>>

Next ==
    \/ StartProgram
    \/ \E tok \in MenuTokens : MenuInput(tok)
    \/ \E tok \in WordTokens \cup FirstNumberTokens \cup NumberTokens \cup AngleTokens :
          OperandInput(tok)
    \/ \E tok \in SubmenuTokens : SubmenuInput(tok)
    \/ \E tok \in ConfirmTokens : ConfirmInput(tok)
    \/ \E exc \in Interrupts : Interrupt(exc)
    \/ Upload

Spec == Init /\ [][Next]_vars

\* Log files of earlier days: a header count and records, which need not agree
\* when the file was edited by hand; a header without a count; and the empty
\* file that a killed run leaves
OldRecord1 == LogRecord(CalcMsg(ADDITION, ParseFloat("60"), ParseFloat("2"), ParseFloat("62")))
OldRecord2 == LogRecord(CalcMsg(DIVISION, ParseFloat("-200.5"), ParseFloat("2"), ParseFloat("-100.25")))
ExistingFiles ==
    { <<>>,
      TXT_TOTAL \o <<NL>> \o OldRecord2,
      upload_log(<<>>, <<>>, <<OldRecord1>>, 0, 1),
      upload_log(<<>>, <<>>, <<OldRecord1>>, 0, 12),
      upload_log(<<>>, <<>>, <<OldRecord1, OldRecord2>>, 0, 5) }

\* Before a run, whatever log file it finds: none, or one of ExistingFiles
InitFiles ==
    /\ \/ file_exists = FALSE /\ file = <<>>
       \/ file_exists = TRUE /\ file \in ExistingFiles
    /\ log_open = FALSE
    /\ drawn = <<>>
    /\ pc = "off"
    /\ old_log = <<>>
    /\ old_calc_count = 0
    /\ new_log = <<>>
    /\ new_calc_count = 0
    /\ menu_running = FALSE
    /\ user_selection = ""
    /\ operands = <<>>
    /\ result = NoResult
    /\ is_fraction = FALSE
    /\ raised = ""
    /\ out = ""
    /\ num = 0
    /\ morse = <<>>
    /\ decoded = -1

SpecFiles == InitFiles /\ [][Next]_vars

\* ------------------------------------- interrupts between statements ----
\* KeyboardInterrupt is raised wherever the interpreter handles the signal,
\* not only inside input().  The second operand is read, the operation
\* succeeds, calc_msg is printed and the record is appended (line 169); the
\* interrupt is raised before new_calc_count += 1 (line 170) and the except
\* clause of main_menu breaks the loop.
LogThenInterrupt(tok) ==
    /\ UNCHANGED codec
    /\ pc = "operand"
    /\ user_selection \in ArithmeticItems
    /\ Len(operands) = 1
    /\ LET float_input == ParseFloat(Lower(tok))
           new_result == Compute(user_selection, operands[1], float_input)
       IN  /\ ~Raised(float_input)
           /\ ~Raised(new_result)
           /\ new_log' = Append(new_log,
                  LogRecord(CalcMsg(user_selection, operands[1], float_input, new_result)))
    /\ pc' = Catch("KeyboardInterrupt", "").pc
    /\ out' = "Calculation"
    /\ raised' = "KeyboardInterrupt"
    /\ drawn' = <<>>
    /\ ClearLocals
    /\ UNCHANGED <<disk, old_log, old_calc_count, new_calc_count, menu_running>>

NextAsync ==
    \/ Next
    \/ \E tok \in NumberTokens : LogThenInterrupt(tok)

SpecAsync == Init /\ [][NextAsync]_vars

\* ---------------------------------------------- the Morse codec alone ----
\* utilities.num2morse and utilities.morse2num called one after the other on
\* an integer of 0..MaxNum, the calculator not started
InitMorse ==
    /\ file_exists = FALSE
    /\ file = <<>>
    /\ log_open = FALSE
    /\ drawn = <<>>
    /\ pc = "off"
    /\ old_log = <<>>
    /\ old_calc_count = 0
    /\ new_log = <<>>
    /\ new_calc_count = 0
    /\ menu_running = FALSE
    /\ user_selection = ""
    /\ operands = <<>>
    /\ result = NoResult
    /\ is_fraction = FALSE
    /\ raised = ""
    /\ out = ""
    /\ num \in 0..MaxNum
    /\ morse = <<>>
    /\ decoded = -1

\* morse = num2morse(num)
Num2Morse ==
    /\ morse = <<>>
    /\ morse' = num2morse(num)
    /\ UNCHANGED <<disk, drawn, pc, session, locals, raised, out, num, decoded>>

\* decoded = morse2num(morse)
Morse2Num ==
    /\ morse # <<>>
    /\ decoded = -1
    /\ decoded' = morse2num(morse)
    /\ UNCHANGED <<disk, drawn, pc, session, locals, raised, out, num, morse>>

NextMorse ==
    \/ Num2Morse
    \/ Morse2Num

SpecMorse == InitMorse /\ [][NextMorse]_vars

\* ------------------------------------------------------------- claims ----
\* The record lines of a log file: its lines after the header line
RecordLines(content) == Rest(ReadLines(content))

\* The header line upload_log writes for a total
HeaderLine(total) == TXT_TOTAL \o num2morse(total) \o <<NL>>

C2_UploadWritesHeaderOldNew ==
    [][Upload
         => /\ file = <<>>
            /\ ReadLines(file') =
                  <<HeaderLine(new_calc_count + old_calc_count)>> \o old_log \o new_log
            /\ log_open /\ ~log_open']_vars

\* C2 witness: a file written with an old record before a new one
C2_Witness ==
    /\ pc = "exited"
    /\ Len(old_log) = 1
    /\ Len(new_log) = 1
    /\ ReadLines(file)[2] = old_log[1]
    /\ ReadLines(file)[3] = new_log[1]

\* C3: the file upload_log wrote with total n and records R, read by
\* initialisation at the start of the next run, gives old_calc_count = n and
\* old_log = R.
C3_LogRoundTrip ==
    [][pc = "exited" /\ StartProgram
         => /\ old_calc_count' = old_calc_count + new_calc_count
            /\ old_log' = old_log \o new_log]_vars

\* C3 witness: a run that read back count 13 and two records: the 12 and the
\* record of the file it started from, and the calculation of the run before
C3_Witness ==
    /\ pc = "menu"
    /\ old_calc_count = 13
    /\ Len(old_log) = 2
    /\ new_log = <<>>

\* The exceptions of the error kinds: a wrong selection (KeyError), no number
\* (ValueError in valid_float_input), cancelled input (Exception), division by
\* zero, overflow, wrong angles (ValueError)
ErrorKinds == {"KeyError", "ValueError", "Exception", "ZeroDivisionError", "OverflowError"}

\* A step that raises one of the error kinds outside the formatting submenu
MainMenuError == pc \in {"menu", "operand"} /\ raised' \in ErrorKinds

\* What C4 says of every step but the reporting: an error leaves the records
\* and the counter as they are and the loop running, at the main menu or, for
\* an operand that is no number, at the prompt of the operand; and no step
\* between the selection and the end of the operation changes them, other
\* than the operation succeeding.
C4_StateKept ==
    /\ MainMenuError
         => /\ UNCHANGED <<new_log, new_calc_count, old_log, old_calc_count>>
            /\ menu_running'
            /\ IF out' = MSG_INVALID_NUMBER
               THEN pc' = "operand" /\ UNCHANGED <<user_selection, operands>>
               ELSE pc' = "menu"
    /\ pc \in {"menu", "operand"} /\ pc' # "submenu"
         => UNCHANGED <<new_log, new_calc_count>>

\* C4 as stated: every error is also reported by a message.
C4_EveryErrorReported ==
    [][C4_StateKept /\ (MainMenuError => out' # "")]_vars

\* C4 amended: every error but the cancelled input is reported by a message;
\* the cancelled input (x or exit at an operand prompt) returns to the main
\* menu without one.
C4_ErrorsKeepSession ==
    [][/\ C4_StateKept
       /\ MainMenuError => (out' = "" <=> raised' = "Exception")
       /\ MainMenuError /\ raised' = "Exception" => pc = "operand" /\ pc' = "menu"]_vars

\* C4 witness: an overflow reported at the main menu, a record in the session
C4_Witness ==
    /\ pc = "menu"
    /\ raised = "OverflowError"
    /\ out = MSG_OVERFLOW
    /\ Len(new_log) = 1
    /\ new_calc_count = 1

C6_SubmenuShownAgain ==
    [][pc = "submenu" /\ raised' = "KeyError"
         => out' = MSG_NOT_SUB /\ pc' = "submenu" /\ result' = result]_vars

C8_Dividends ==
    {ParseFloat("200.5"), ParseFloat("-200.5"), ParseFloat("2"), Fin(1, 0, 1),
     Fin(-1, 0, 1), Inf(1), Inf(-1)}

\* C8: division(a, 0) raises ZeroDivisionError for every dividend, and in the
\* main menu a zero divisor is reported as division by zero, with no record
\* appended, no count and no formatting submenu.
C8_DivisionByZero ==
    /\ \A a \in C8_Dividends : \A zero \in {Fin(1, 0, 1), Fin(-1, 0, 1)} :
          /\ Raised(division(a, zero))
          /\ division(a, zero).exc = "ZeroDivisionError"
    /\ [][(/\ pc = "operand"
           /\ user_selection = DIVISION
           /\ Len(operands) = 1
           /\ OperandInput("0"))
            => /\ raised' = "ZeroDivisionError"
               /\ out' = MSG_DIV_ZERO
               /\ pc' = "menu"
               /\ UNCHANGED <<new_log, new_calc_count>>]_vars

\* C8 witness: a division by zero reported at the main menu
C8_Witness ==
    /\ pc = "menu"
    /\ raised = "ZeroDivisionError"
    /\ out = MSG_DIV_ZERO

\* The angle a whole number of degrees was entered as
C9_Degrees(a) == a.s * a.n

\* The triangles Draw Triangle accepts, as C9 states them
C9_Accepted(a1, a2, a3) ==
    /\ C9_Degrees(a1) + C9_Degrees(a2) + C9_Degrees(a3) = 180
    /\ \A a \in {a1, a2, a3} : C9_Degrees(a) > 0 /\ C9_Degrees(a) >= 5

\* C9: once the third angle is read, the renderer is called (with the three
\* angles) exactly when they add up to 180, are all > 0 and all >= 5;
\* otherwise the violation is reported; the loop is back at the main menu and
\* new_log and new_calc_count are as before.
C9_TriangleValidation ==
    [][\A tok \in AngleTokens :
          (/\ pc = "operand"
           /\ user_selection = DRAW_TRIANGLE
           /\ Len(operands) = 2
           /\ OperandInput(tok))
            => LET a1 == operands[1]
                   a2 == operands[2]
                   a3 == ParseFloat(tok)
               IN  /\ IF C9_Accepted(a1, a2, a3)
                      THEN drawn' = <<a1, a2, a3>> /\ raised' = "" /\ out' = MSG_VIEW_PNG
                      ELSE /\ drawn' = <<>>
                           /\ raised' = "ValueError"
                           /\ out' \in {MSG_ANGLE_SUM, MSG_ANGLE_POS, MSG_ANGLE_MIN}
                   /\ pc' = "menu"
                   /\ UNCHANGED <<new_log, new_calc_count>>]_vars

\* C9 witness: the triangle (60, 60, 60) drawn in a session that holds a record
C9_Witness ==
    /\ drawn = <<ParseFloat("60"), ParseFloat("60"), ParseFloat("60")>>
    /\ pc = "menu"
    /\ Len(new_log) = 1

\* C10: initialisation returns, for a file that was there, the count whose
\* Morse code the first line holds after its 20 character label (0 when it
\* holds none) and the lines after the first as the records; for a new file 0
\* and no records; and it leaves the file empty.
C10_Initialisation ==
    [][StartProgram
         => /\ file' = <<>>
            /\ IF file_exists /\ file # <<>>
               THEN /\ ReadLine(file) \in {HeaderLine(old_calc_count'), TXT_TOTAL \o <<NL>>}
                    /\ ReadLine(file) = TXT_TOTAL \o <<NL>> => old_calc_count' = 0
                    /\ ReadLine(file) \o Concat(old_log') = file
               ELSE old_calc_count' = 0 /\ old_log' = <<>>]_vars

\* C10 witness: a run that found the file with count 12 and one record
C10_Witness ==
    /\ pc = "menu"
    /\ file = <<>>
    /\ old_calc_count = 12
    /\ old_log = <<OldRecord1>>
    /\ new_log = <<>>

\* The number of decimal digits of n >= 0
C11_Digits(n) == IF n < 10 THEN 1 ELSE IF n < 100 THEN 2 ELSE IF n < 1000 THEN 3 ELSE 4

\* The k-th decimal digit of n, from the left
C11_Digit(n, k) == (n \div (10 ^ (C11_Digits(n) - k))) % 10

\* text is one 5-symbol dot/dash code per decimal digit of n, the code of that
\* digit, joined by single spaces
C11_Encodes(text, n) ==
    /\ Len(text) = 6 * C11_Digits(n) - 1
    /\ \A k \in 1..C11_Digits(n) :
          LET code == SubSeq(text, 6 * k - 5, 6 * k - 1)
          IN  /\ Len(code) = 5
              /\ \A i \in 1..5 : code[i] \in {".", "-"}
              /\ code = NUM2MORSE_DICT[DigitChars[C11_Digit(n, k) + 1]]
              /\ k < C11_Digits(n) => text[6 * k] = SP

\* C11: for every n of 0..MaxNum, num2morse(n) is one 5-symbol code per
\* decimal digit joined by single spaces, and morse2num(num2morse(n)) = n.
C11_MorseRoundTrip ==
    /\ [][Num2Morse => C11_Encodes(morse', num)]_vars
    /\ [][Morse2Num => decoded' = num]_vars

\* C11 witness: 12 was encoded as ".---- ..---" and decoded back to 12
C11_Witness ==
    /\ num = 12
    /\ morse = <<".", "-", "-", "-", "-", " ", ".", ".", "-", "-", "-">>
    /\ decoded = 12

\* The float a has a non-zero fractional part
C12_HasFraction(a) == a.k = "fin" /\ a.n % a.d # 0

\* C12: the formatting submenu is entered, and stays, with is_fraction true
\* exactly when the result has a non-zero fractional part; option 4 shows
\* the fraction only with the flag true, and for an integral result it is
\* refused as not a submenu option.
C12_FractionEligibility ==
    /\ [][(pc = "operand" /\ pc' = "submenu")
            => /\ result'.k = "fin"
               /\ is_fraction' = C12_HasFraction(result')]_vars
    /\ [](pc \in {"submenu", "confirm_sub"}
            => is_fraction = C12_HasFraction(result))
    /\ [][(pc = "submenu" /\ out' = "fraction")
            => /\ is_fraction
               /\ C12_HasFraction(result)]_vars
    /\ [][(pc = "submenu" /\ ~C12_HasFraction(result) /\ SubmenuInput("4"))
            => /\ out' # "fraction"
               /\ raised' = "KeyError"]_vars

\* C12 witness: option 4 has shown the fraction of the result 200.5
C12_Witness ==
    /\ pc = "submenu"
    /\ out = "fraction"
    /\ is_fraction
    /\ result = Fin(1, 401, 2)

\* C13: whenever main_menu has returned, after a confirmed Exit or after an
\* interrupt at any point of the loop, new_calc_count is the number of lines
\* of new_log.
C13_CountIsLogLength ==
    pc = "returned" => new_calc_count = Len(new_log)

\* The count c the header of a log file stands for: the n whose header line
\* is the first line of the file, 0 for a file without a count
C14_HeaderCount(content) ==
    IF ReadLine(content) \in {<<>>, TXT_TOTAL \o <<NL>>} THEN 0
    ELSE IF \E n \in 0..20 : ReadLine(content) = HeaderLine(n)
         THEN CHOOSE n \in 0..20 : ReadLine(content) = HeaderLine(n)
         ELSE -1

\* Header count minus number of records: of the log file between runs, of
\* what the session holds (old and new together) during a run
C14_Difference ==
    IF pc \in {"off", "exited"}
    THEN C14_HeaderCount(file) - Len(RecordLines(file))
    ELSE (old_calc_count + new_calc_count) - (Len(old_log) + Len(new_log))

====
